---- MODULE Spec2Model ----
(***************************************************************************)
(* Model of the budget-tracker dashboard (src/app/(dashboard)/page.tsx):   *)
(* the derived views computed by every render of DashboardPage (search     *)
(* filter, category view, month view, chart series, totals) and the        *)
(* reload protocol around the expense store (fetchExpenses, onSubmit,      *)
(* handleDeleteExpense).                                                   *)
(*                                                                         *)
(* JavaScript strings are sequences of one-character strings, so that      *)
(* toLowerCase, includes, Date parsing and date formatting are computed.   *)
(* JavaScript objects used as maps are sequences of [key, value] entries   *)
(* in insertion order; property reads fall back to Object.prototype and    *)
(* key enumeration follows OrdinaryOwnPropertyKeys.                        *)
(***************************************************************************)
EXTENDS Integers, Sequences, FiniteSets, TLC

VARIABLES
    expenses,          \* useState<Expense[]>: the dashboard's RecordSet
    searchTerm,        \* useState(''): the search box
    tzOffset,          \* the browser's time zone, minutes east of UTC
    view,              \* what the last completed render computed
    rendered,          \* "stale" | "ok" | "error": outcome of the last render
    user,              \* useState<any>(null)
    loadingExpenses,   \* useState<boolean>(false)
    expensesError,     \* useState<string | null>(null)
    editingExpenseId,  \* useState<string | null>(null)
    isSubmitting,      \* react-hook-form formState.isSubmitting
    store,             \* rows of the remote 'expenses' table
    calls,             \* requests to the remote store that are in flight
    nextCall,          \* number of requests issued so far
    nextId             \* next row id the store hands out

vars == <<expenses, searchTerm, tzOffset, view, rendered, user, loadingExpenses,
          expensesError, editingExpenseId, isSubmitting, store, calls, nextCall,
          nextId>>

reloadVars == <<user, loadingExpenses, expensesError, editingExpenseId,
                isSubmitting, store, calls, nextCall, nextId>>

-----------------------------------------------------------------------------
(* Bounds of the model. *)

MaxRecords == 3
MaxCalls == 5

-----------------------------------------------------------------------------
(* Strings. *)

UpperCase == <<"A","B","C","D","E","F","G","H","I","J","K","L","M",
               "N","O","P","Q","R","S","T","U","V","W","X","Y","Z">>
LowerCase == <<"a","b","c","d","e","f","g","h","i","j","k","l","m",
               "n","o","p","q","r","s","t","u","v","w","x","y","z">>
Digits == <<"0","1","2","3","4","5","6","7","8","9">>

\* position of x in a list, 0 when it is not there
IndexIn(x, table) ==
    IF \E i \in DOMAIN table : table[i] = x
    THEN CHOOSE i \in DOMAIN table : table[i] = x
    ELSE 0

\* the lower-case letter of every upper-case letter
UpperToLower ==
    [c \in {UpperCase[i] : i \in DOMAIN UpperCase} |-> LowerCase[IndexIn(c, UpperCase)]]

\* the value of every decimal digit
DigitValue ==
    [c \in {Digits[i] : i \in DOMAIN Digits} |-> IndexIn(c, Digits) - 1]

IsDigit(c) == c \in DOMAIN DigitValue

\* String.prototype.toLowerCase, one character
LowerChar(c) == IF c \in DOMAIN UpperToLower THEN UpperToLower[c] ELSE c

\* String.prototype.toLowerCase / toLocaleLowerCase (en-US)
toLowerCase(s) == [i \in 1..Len(s) |-> LowerChar(s[i])]

\* String.prototype.includes
includes(s, t) ==
    \E i \in 0..(Len(s) - Len(t)) : \A j \in 1..Len(t) : s[i + j] = t[j]

\* collation rank of a character for localeCompare (space and punctuation,
\* then digits, then letters)
CollationRank(c) ==
    IF IsDigit(c) THEN 10 + DigitValue[c]
    ELSE IF IndexIn(LowerChar(c), LowerCase) # 0 THEN 30 + IndexIn(LowerChar(c), LowerCase)
    ELSE IF c = " " THEN 1
    ELSE 2

RECURSIVE localeCompare(_, _)
\* String.prototype.localeCompare: negative, zero or positive
localeCompare(a, b) ==
    IF a = <<>> /\ b = <<>> THEN 0
    ELSE IF a = <<>> THEN -1
    ELSE IF b = <<>> THEN 1
    ELSE IF CollationRank(Head(a)) # CollationRank(Head(b))
         THEN CollationRank(Head(a)) - CollationRank(Head(b))
    ELSE localeCompare(Tail(a), Tail(b))

RECURSIVE DigitsValue(_)
\* the number a string of decimal digits denotes
DigitsValue(s) ==
    IF s = <<>> THEN 0
    ELSE 10 * DigitsValue(SubSeq(s, 1, Len(s) - 1)) + DigitValue[s[Len(s)]]

\* a canonical array index ("0", "7", "10", not "07"): such property keys are
\* enumerated first and in ascending numeric order
IsArrayIndex(k) ==
    /\ Len(k) >= 1
    /\ Len(k) <= 9
    /\ \A i \in 1..Len(k) : IsDigit(k[i])
    /\ (Len(k) > 1 => k[1] # "0")

-----------------------------------------------------------------------------
(* The record sets and search terms the views are checked on.               *)

Food == <<"F","o","o","d">>
food == <<"f","o","o","d">>
Nine == <<"9">>
Constructor == <<"c","o","n","s","t","r","u","c","t","o","r">>

Apr01 == <<"2","0","2","4","-","0","4","-","0","1">>
Apr15 == <<"2","0","2","4","-","0","4","-","1","5">>
Aug10 == <<"2","0","2","3","-","0","8","-","1","0">>

NoNotes == [isNull |-> TRUE, str |-> <<>>]
Notes(str) == [isNull |-> FALSE, str |-> str]

Categories == {Food, food, Nine, Constructor}
Dates == {Apr01, Apr15, Aug10}

\* the amount entered with a category and a date: positive, negative and zero
AmountFor(category, date) ==
    (CASE category = Food -> 5
       [] category = food -> -5
       [] category = Nine -> 0
       [] OTHER -> 7)
    + (IF date = Aug10 THEN 1 ELSE 0)

\* the title entered with a date
TitleFor(date) == IF date = Apr01 THEN <<"C","o","l","a">> ELSE <<"T","e","a">>

\* the field values of an expense, without its id
Templates ==
    { [title |-> TitleFor(d), amount |-> AmountFor(c, d), category |-> c, date |-> d,
       notes |-> NoNotes] : c \in Categories, d \in Dates }

\* a RecordSet: the i-th record has id i
RecordSets(templates, n) ==
    { [i \in 1..n |->
         [id |-> i, title |-> ts[i].title, amount |-> ts[i].amount,
          category |-> ts[i].category, date |-> ts[i].date, notes |-> ts[i].notes]]
      : ts \in [1..n -> templates] }

\* minutes east of UTC: America/New_York (standard time) and UTC
TimeZones == {-300, 0}

SearchTerms == { <<>>, <<"o">> }

-----
(* Dates. A time value is counted in minutes since 1970-01-01T00:00Z.       *)

MinutesPerDay == 1440

MonthNames == <<
    <<"J","a","n","u","a","r","y">>,
    <<"F","e","b","r","u","a","r","y">>,
    <<"M","a","r","c","h">>,
    <<"A","p","r","i","l">>,
    <<"M","a","y">>,
    <<"J","u","n","e">>,
    <<"J","u","l","y">>,
    <<"A","u","g","u","s","t">>,
    <<"S","e","p","t","e","m","b","e","r">>,
    <<"O","c","t","o","b","e","r">>,
    <<"N","o","v","e","m","b","e","r">>,
    <<"D","e","c","e","m","b","e","r">> >>

\* days from 1970-01-01 to the civil date y-m-d (proleptic Gregorian)
DaysFromCivil(y, m, d) ==
    LET yy  == IF m <= 2 THEN y - 1 ELSE y
        era == yy \div 400
        yoe == yy - era * 400
        mp  == IF m > 2 THEN m - 3 ELSE m + 9
        doy == (153 * mp + 2) \div 5 + d - 1
        doe == yoe * 365 + yoe \div 4 - yoe \div 100 + doy
    IN  era * 146097 + doe - 719468

\* the civil date [y, m, d] of a day number
CivilFromDays(z0) ==
    LET z   == z0 + 719468
        era == z \div 146097
        doe == z - era * 146097
        yoe == (doe - doe \div 1460 + doe \div 36524 - doe \div 146096) \div 365
        doy == doe - (365 * yoe + yoe \div 4 - yoe \div 100)
        mp  == (5 * doy + 2) \div 153
        d   == doy - (153 * mp + 2) \div 5 + 1
        m   == IF mp < 10 THEN mp + 3 ELSE mp - 9
        y   == yoe + era * 400 + (IF m <= 2 THEN 1 ELSE 0)
    IN  [y |-> y, m |-> m, d |-> d]

\* new Date("YYYY-MM-DD").getTime(): a date-only ISO string is UTC midnight
ParseIsoDate(s) ==
    LET y == DigitsValue(SubSeq(s, 1, 4))
        m == DigitsValue(SubSeq(s, 6, 7))
        d == DigitsValue(SubSeq(s, 9, 10))
    IN  DaysFromCivil(y, m, d) * MinutesPerDay

\* the four digits of a year
YearDigits(y) ==
    << Digits[((y \div 1000) % 10) + 1], Digits[((y \div 100) % 10) + 1],
       Digits[((y \div 10) % 10) + 1], Digits[(y % 10) + 1] >>

\* new Date(t).toLocaleDateString('en-US', {month: 'long', year: 'numeric'}):
\* the month and year of t on the local calendar, "March 2024"
MonthLabelOf(t, tz) ==
    LET c == CivilFromDays((t + tz) \div MinutesPerDay)
    IN  MonthNames[c.m] \o <<" ">> \o YearDigits(c.y)

\* new Date("March 2024").getTime(): the legacy parser reads a month name and
\* a year as the first of that month, local midnight
ParseMonthLabel(label, tz) ==
    LET sp == CHOOSE i \in 1..Len(label) : label[i] = " "
        m  == IndexIn(SubSeq(label, 1, sp - 1), MonthNames)
        y  == DigitsValue(SubSeq(label, sp + 1, Len(label)))
    IN  DaysFromCivil(y, m, 1) * MinutesPerDay - tz

\* ParseIsoDate, MonthLabelOf and ParseMonthLabel tabulated on the dates and
\* time zones of the model
TimeOfDate == [d \in Dates |-> ParseIsoDate(d)]
LabelOfDate == [d \in Dates, tz \in TimeZones |-> MonthLabelOf(TimeOfDate[d], tz)]
TimeOfLabel ==
    [l \in {LabelOfDate[d, tz] : d \in Dates, tz \in TimeZones}, tz \in TimeZones |->
        ParseMonthLabel(l, tz)]

\* new Date(s).getTime() of a date-only string
getTime(s) == IF s \in DOMAIN TimeOfDate THEN TimeOfDate[s] ELSE ParseIsoDate(s)

\* new Date(label).getTime() of a month label
getLabelTime(label, tz) ==
    IF <<label, tz>> \in DOMAIN TimeOfLabel THEN TimeOfLabel[label, tz]
    ELSE ParseMonthLabel(label, tz)

-----------------------------------------------------------------------------
(* JavaScript objects used as maps: a sequence of [key, value] entries in   *)
(* insertion order.                                                         *)

\* lower-case names every object inherits from Object.prototype
ObjectPrototypeKeys ==
    { <<"c","o","n","s","t","r","u","c","t","o","r">>,
      <<"_","_","p","r","o","t","o","_","_">> }

\* position of the own property k of obj, 0 when obj has no such own property
OwnIndex(obj, k) ==
    IF \E i \in DOMAIN obj : obj[i].key = k
    THEN CHOOSE i \in DOMAIN obj : obj[i].key = k
    ELSE 0

HasOwn(obj, k) == OwnIndex(obj, k) # 0

\* obj[k] of an own property
Get(obj, k) == obj[OwnIndex(obj, k)].value

\* obj[k] = v: a new key is appended, an existing key keeps its position
Put(obj, k, v) ==
    IF HasOwn(obj, k)
    THEN [obj EXCEPT ![OwnIndex(obj, k)] = [key |-> k, value |-> v]]
    ELSE Append(obj, [key |-> k, value |-> v])

\* !obj[k] for an object whose own values are objects or arrays (always
\* truthy): an inherited property is truthy too, a missing one is undefined
IsMissing(obj, k) == ~HasOwn(obj, k) /\ k \notin ObjectPrototypeKeys

\* obj[k] resolves to a member of Object.prototype, not to an own property
IsInherited(obj, k) == ~HasOwn(obj, k) /\ k \in ObjectPrototypeKeys

RECURSIVE InsertIndexKey(_, _)
\* e put into a list of entries with array-index keys, ascending by number
InsertIndexKey(sorted, e) ==
    IF sorted = <<>> THEN <<e>>
    ELSE IF DigitsValue(e.key) < DigitsValue(Head(sorted).key)
         THEN <<e>> \o sorted
    ELSE <<Head(sorted)>> \o InsertIndexKey(Tail(sorted), e)

RECURSIVE IndexKeyEntries(_)
IndexKeyEntries(obj) ==
    IF obj = <<>> THEN <<>>
    ELSE IF IsArrayIndex(obj[Len(obj)].key)
         THEN InsertIndexKey(IndexKeyEntries(SubSeq(obj, 1, Len(obj) - 1)), obj[Len(obj)])
    ELSE IndexKeyEntries(SubSeq(obj, 1, Len(obj) - 1))

\* Object.entries(obj): OrdinaryOwnPropertyKeys lists the array-index keys
\* first, in ascending numeric order, then the other keys in insertion order
ObjectEntries(obj) ==
    IndexKeyEntries(obj) \o SelectSeq(obj, LAMBDA e : ~IsArrayIndex(e.key))

\* Object.keys(obj)
ObjectKeys(obj) == [i \in 1..Len(obj) |-> ObjectEntries(obj)[i].key]

\* Object.values(obj)
ObjectValues(obj) == [i \in 1..Len(obj) |-> ObjectEntries(obj)[i].value]

-----------------------------------------------------------------------------
(* Arrays. *)

\* Array.prototype.sort(compareFn) for a consistent compareFn, given as the
\* table cmp[i, j] = compareFn(s[i], s[j]): the elements in ascending order of
\* compareFn, equal elements in their original order (the sort is stable
\* since ES2019)
ArraySort(s, cmp) ==
    LET rank == [i \in DOMAIN s |->
                    Cardinality({j \in DOMAIN s : cmp[j, i] < 0})
                    + Cardinality({j \in 1..i : cmp[j, i] = 0})]
    IN  [p \in DOMAIN s |-> s[CHOOSE i \in DOMAIN s : rank[i] = p]]

RECURSIVE Flat(_)
\* Array.prototype.flat() of an array of arrays
Flat(ss) == IF ss = <<>> THEN <<>> ELSE Head(ss) \o Flat(Tail(ss))

RECURSIVE SumAmount(_)
\* items.reduce((sum, exp) => sum + exp.amount, 0)
SumAmount(items) ==
    IF items = <<>> THEN 0
    ELSE SumAmount(SubSeq(items, 1, Len(items) - 1)) + items[Len(items)].amount

-----------------------------------------------------------------------------
(* The derived views of one render of DashboardPage.                        *)

Front(s) == SubSeq(s, 1, Len(s) - 1)
Last(s) == s[Len(s)]

\* the search term compared as typed, not lower-cased
MatchesSearch_TermAsTyped(exp, term) ==
    IF term = <<>> THEN TRUE
    ELSE LET text == term
         IN  \/ includes(toLowerCase(exp.title), text)
             \/ includes(toLowerCase(exp.category), text)
             \/ (IF exp.notes.isNull THEN FALSE
                 ELSE includes(toLowerCase(exp.notes.str), text))

\* the predicate of expenses.filter(...): every record when the search term
\* is empty, otherwise a case-insensitive substring test on title, category
\* and notes (exp.notes?. of a missing notes is undefined, hence false)
MatchesSearch(exp, term) ==
    IF term = <<>> THEN TRUE
    ELSE LET text == toLowerCase(term)
         IN  \/ includes(toLowerCase(exp.title), text)
             \/ includes(toLowerCase(exp.category), text)
             \/ (IF exp.notes.isNull THEN FALSE
                 ELSE includes(toLowerCase(exp.notes.str), text))

filteredExpenses(exps, term) ==
    SelectSeq(exps, LAMBDA exp : MatchesSearch(exp, term))

\* grouping by the category text as entered, case and all
CategoryStep_CaseSensitive(acc, exp) ==
    LET normalized == exp.category
        obj1 == IF IsMissing(acc.obj, normalized)
                THEN Put(acc.obj, normalized, [display |-> exp.category, items |-> <<>>])
                ELSE acc.obj
    IN  IF acc.threw THEN acc
        ELSE IF IsInherited(obj1, normalized) THEN [threw |-> TRUE, obj |-> obj1]
        ELSE [threw |-> FALSE,
              obj |-> Put(obj1, normalized,
                          [Get(obj1, normalized) EXCEPT !.items = Append(@, exp)])]

\* one pass of the filteredExpenses.forEach that fills expensesByCategory;
\* .items of an inherited member of Object.prototype is undefined, and
\* undefined.push throws a TypeError
CategoryStep(acc, exp) ==
    LET normalized == toLowerCase(exp.category)
        obj1 == IF IsMissing(acc.obj, normalized)
                THEN Put(acc.obj, normalized, [display |-> exp.category, items |-> <<>>])
                ELSE acc.obj
    IN  IF acc.threw THEN acc
        ELSE IF IsInherited(obj1, normalized) THEN [threw |-> TRUE, obj |-> obj1]
        ELSE [threw |-> FALSE,
              obj |-> Put(obj1, normalized,
                          [Get(obj1, normalized) EXCEPT !.items = Append(@, exp)])]

RECURSIVE GroupByCategory(_)
GroupByCategory(exps) ==
    IF exps = <<>> THEN [threw |-> FALSE, obj |-> <<>>]
    ELSE CategoryStep(GroupByCategory(Front(exps)), Last(exps))

\* the comparison the other way round: oldest first
CompareDate_Ascending(a, b) == getTime(a.date) - getTime(b.date)

\* (a, b) => new Date(b.date).getTime() - new Date(a.date).getTime()
CompareDateDesc(a, b) == getTime(b.date) - getTime(a.date)

\* Object.values(expensesByCategory).forEach(cat => cat.items.sort(...)):
\* every group's own items array is sorted in place
SortCategoryItems(obj) ==
    [i \in DOMAIN obj |->
        [key |-> obj[i].key,
         value |-> [obj[i].value EXCEPT !.items =
                        ArraySort(@, [a \in DOMAIN @, b \in DOMAIN @ |->
                                        CompareDateDesc(@[a], @[b])])]]]

CompareDisplay(a, b) == localeCompare(toLowerCase(a.display), toLowerCase(b.display))

sortedCategories(byCategory) ==
    LET groups == ObjectValues(byCategory)
    IN  ArraySort(groups, [a \in DOMAIN groups, b \in DOMAIN groups |->
                              CompareDisplay(groups[a], groups[b])])

\* new Date(exp.date).toLocaleDateString('en-US', {month: 'long', year: 'numeric'})
monthLabel(exp, tz) ==
    IF <<exp.date, tz>> \in DOMAIN LabelOfDate THEN LabelOfDate[exp.date, tz]
    ELSE MonthLabelOf(getTime(exp.date), tz)

\* the body of the filteredExpenses.forEach that fills expensesByMonth, for a
\* record whose month label and category key are computed; push of an
\* inherited member of Object.prototype is undefined, and calling it throws a
\* TypeError
MonthPush(acc, exp, label, categoryKey) ==
    LET obj1 == IF IsMissing(acc.obj, label) THEN Put(acc.obj, label, <<>>)
                ELSE acc.obj
        month == Get(obj1, label)
        month1 == IF IsMissing(month, categoryKey) THEN Put(month, categoryKey, <<>>)
                  ELSE month
    IN  IF acc.threw THEN acc
        ELSE IF IsInherited(obj1, label) \/ IsInherited(month1, categoryKey)
             THEN [threw |-> TRUE, obj |-> obj1]
        ELSE [threw |-> FALSE,
              obj |-> Put(obj1, label,
                          Put(month1, categoryKey, Append(Get(month1, categoryKey), exp)))]

\* one pass of the filteredExpenses.forEach that fills expensesByMonth
MonthStep(acc, exp, tz) ==
    MonthPush(acc, exp, monthLabel(exp, tz), toLowerCase(exp.category))

RECURSIVE GroupByMonth(_, _)
GroupByMonth(exps, tz) ==
    IF exps = <<>> THEN [threw |-> FALSE, obj |-> <<>>]
    ELSE MonthStep(GroupByMonth(Front(exps), tz), Last(exps), tz)

\* the month labels compared as strings, not as dates
CompareMonth_ByLabel(a, b, tz) == localeCompare(b, a)

\* the order of the month labels: (a, b) => new Date(b).getTime() - new Date(a).getTime()
CompareMonthDesc(a, b, tz) == getLabelTime(b, tz) - getLabelTime(a, tz)

sortedMonthLabels(byMonth, tz) ==
    LET labels == ObjectKeys(byMonth)
    IN  ArraySort(labels, [a \in DOMAIN labels, b \in DOMAIN labels |->
                              CompareMonthDesc(labels[a], labels[b], tz)])

sortedMonths(byMonth, tz) ==
    LET labels == sortedMonthLabels(byMonth, tz)
    IN  [i \in DOMAIN labels |->
            [label |-> labels[i], categories |-> Get(byMonth, labels[i])]]

\* the body of the expenses.forEach that fills monthlyTotals, for a record
\* whose month label is computed; a total of 0 is falsy and is set to 0 again
TotalsAdd(obj, label, amount) ==
    LET obj1 == IF ~HasOwn(obj, label) \/ (HasOwn(obj, label) /\ Get(obj, label) = 0)
                THEN Put(obj, label, 0)
                ELSE obj
    IN  Put(obj1, label, Get(obj1, label) + amount)

\* one pass of the expenses.forEach that fills monthlyTotals
TotalsStep(obj, exp, tz) == TotalsAdd(obj, monthLabel(exp, tz), exp.amount)

\* the chart built from the filtered records
chartSource_Filtered(exps, filtered) == filtered

\* the records the chart is built from: expenses.forEach, not filteredExpenses
chartSource(exps, filtered) == exps

RECURSIVE monthlyTotals(_, _)
monthlyTotals(exps, tz) ==
    IF exps = <<>> THEN <<>>
    ELSE TotalsStep(monthlyTotals(Front(exps), tz), Last(exps), tz)

monthLabels(totals) == ObjectKeys(totals)
monthValues(totals) == ObjectValues(totals)

\* expenses.reduce((sum, exp) => sum + exp.amount, 0)
totalSpent(exps) == SumAmount(exps)

\* a month total that counts the first category cell only
monthTotal_FirstCellOnly(month) == SumAmount(ObjectValues(month.categories)[1])

\* the total shown under a month header
monthTotal(month) == SumAmount(Flat(ObjectValues(month.categories)))

\* the category cells of an open month, in the order they are rendered, each
\* with the header it shows (items[0].category)
categoryCells(month) ==
    LET entries == ObjectEntries(month.categories)
    IN  [i \in DOMAIN entries |->
            [categoryKey |-> entries[i].key,
             header |-> entries[i].value[1].category,
             items |-> entries[i].value,
             categoryTotal |-> SumAmount(entries[i].value)]]

EmptyView ==
    [filteredExpenses |-> <<>>, expensesByCategory |-> <<>>, sortedCategories |-> <<>>,
     expensesByMonth |-> <<>>, sortedMonths |-> <<>>, monthLabels |-> <<>>,
     monthValues |-> <<>>, totalSpent |-> 0]

\* everything the body of DashboardPage computes from expenses and
\* searchTerm; threw: a TypeError in one of the two grouping loops ended it
RenderView(exps, term, tz) ==
    LET filtered == filteredExpenses(exps, term)
        grouped == GroupByCategory(filtered)
        byCategory == SortCategoryItems(grouped.obj)
        months == GroupByMonth(filtered, tz)
        totals == monthlyTotals(chartSource(exps, filtered), tz)
    IN  IF grouped.threw \/ months.threw THEN [threw |-> TRUE, view |-> EmptyView]
        ELSE [threw |-> FALSE,
              view |-> [filteredExpenses |-> filtered,
                        expensesByCategory |-> byCategory,
                        sortedCategories |-> sortedCategories(byCategory),
                        expensesByMonth |-> months.obj,
                        sortedMonths |-> sortedMonths(months.obj, tz),
                        monthLabels |-> monthLabels(totals),
                        monthValues |-> monthValues(totals),
                        totalSpent |-> totalSpent(exps)]]

NULL == "null"

\* a render of DashboardPage after a state change; nothing is shown while
\* there is no user
Render ==
    /\ rendered = "stale"
    /\ user # NULL
    /\ LET r == RenderView(expenses, searchTerm, tzOffset)
       IN  IF r.threw
           THEN rendered' = "error" /\ UNCHANGED view
           ELSE rendered' = "ok" /\ view' = r.view
    /\ UNCHANGED <<expenses, searchTerm, tzOffset>>
    /\ UNCHANGED reloadVars

\* onChange of the search input: setSearchTerm(e.target.value)
SetSearchTerm(terms) ==
    /\ rendered = "ok"
    /\ \E term \in terms :
        /\ term # searchTerm
        /\ searchTerm' = term
    /\ rendered' = "stale"
    /\ UNCHANGED <<expenses, tzOffset, view>>
    /\ UNCHANGED reloadVars

-----------------------------------------------------------------------------
(* The dashboard of a signed-in user with a RecordSet and no request in     *)
(* flight.                                                                  *)

InitReloadIdle ==
    /\ user = "u1"
    /\ loadingExpenses = FALSE
    /\ expensesError = NULL
    /\ editingExpenseId = 0
    /\ isSubmitting = FALSE
    /\ store = {}
    /\ calls = {}
    /\ nextCall = 0
    /\ nextId = 1

\* a dashboard that has just received a RecordSet
Init ==
    /\ \E n \in 0..MaxRecords : expenses \in RecordSets(Templates, n)
    /\ searchTerm = <<>>
    /\ tzOffset \in TimeZones
    /\ view = EmptyView
    /\ rendered = "stale"
    /\ InitReloadIdle

Next == Render \/ SetSearchTerm(SearchTerms)

Spec == Init /\ [][Next]_vars

-----------------------------------------------------------------------------
(* The record sets and search terms the search filter is checked on: texts  *)
(* that differ in case, a text with a space, records without notes.         *)

FilterTitles == { <<"A","b">>, <<"c"," ","d">> }
FilterCategories == { <<"E">>, <<"b">> }
FilterNotes == { NoNotes, Notes(<<"a"," ","e">>) }

FilterTemplates ==
    { [title |-> t, amount |-> 1, category |-> c, date |-> Apr01, notes |-> n]
      : t \in FilterTitles, c \in FilterCategories, n \in FilterNotes }

FilterTerms == { <<>>, <<" ">>, <<"a">>, <<"B">> }

InitFilter ==
    /\ \E n \in 0..MaxRecords : expenses \in RecordSets(FilterTemplates, n)
    /\ searchTerm = <<>>
    /\ tzOffset = 0
    /\ view = EmptyView
    /\ rendered = "stale"
    /\ InitReloadIdle

NextFilter == Render \/ SetSearchTerm(FilterTerms)

SpecFilter == InitFilter /\ [][NextFilter]_vars

-----------------------------------------------------------------------------
(* The reload protocol: the handlers of DashboardPage around the remote     *)
(* 'expenses' table. A request is in flight from the moment a handler       *)
(* awaits it; the store executes it at some later moment, and the handler   *)
(* resumes when the answer arrives. Answers arrive in any order.            *)

\* what the form can hold when it is submitted
FormValues ==
    { [title |-> TitleFor(d), amount |-> AmountFor(c, d), category |-> c, date |-> d,
       notes |-> NoNotes] : c \in {Food, Nine}, d \in {Apr01, Apr15} }

Row(id, f) ==
    [id |-> id, title |-> f.title, amount |-> f.amount, category |-> f.category,
     date |-> f.date, notes |-> f.notes]

\* the rows of the user when the dashboard is opened
InitialStore ==
    { Row(1, [title |-> TitleFor(Apr01), amount |-> AmountFor(Food, Apr01),
              category |-> Food, date |-> Apr01, notes |-> NoNotes]),
      Row(2, [title |-> TitleFor(Apr15), amount |-> AmountFor(Nine, Apr15),
              category |-> Nine, date |-> Apr15, notes |-> NoNotes]) }

\* select('*').order('date', {ascending: false}): the rows, newest date first,
\* rows of one date in any order
SelectResults(rows) ==
    { s \in [1..Cardinality(rows) -> rows] :
        /\ \A i, j \in DOMAIN s : i # j => s[i] # s[j]
        /\ \A i, j \in DOMAIN s : i < j => getTime(s[i].date) >= getTime(s[j].date) }

\* requests that will be followed by a reload when they are answered
Mutations == {c \in calls : c.kind # "select"}

\* the model issues at most MaxCalls requests; a mutation is issued only if
\* its reload can be issued as well
CanIssue(n) == nextCall + Cardinality(Mutations) + n <= MaxCalls

NewCall(kind, arg, origin) ==
    [id |-> nextCall + 1, kind |-> kind, arg |-> arg, origin |-> origin,
     phase |-> "sent", error |-> FALSE, data |-> <<>>]

\* fetchExpenses up to its await: setLoadingExpenses(true),
\* setExpensesError(null), and the select is sent
StartFetch(origin, done) ==
    /\ loadingExpenses' = TRUE
    /\ expensesError' = NULL
    /\ calls' = (calls \ done) \cup {NewCall("select", 0, origin)}
    /\ nextCall' = nextCall + 1
    /\ rendered' = "stale"

\* the effect once: checkUser finds the session, setUser(data.user) and
\* fetchExpenses(data.user). Without a session the page is left for /login
\* and the dashboard's state stays as it is.
CheckUser ==
    /\ user = NULL
    /\ nextCall = 0
    /\ user' = "u1"
    /\ StartFetch("checkUser", {})
    /\ UNCHANGED <<expenses, searchTerm, tzOffset, view, editingExpenseId,
                   isSubmitting, store, nextId>>

\* the store executes a request that is in flight: it fails, or it takes
\* effect on the rows as they are at that moment
StoreExecutes ==
    \E c \in calls :
        /\ c.phase = "sent"
        /\ \/ /\ calls' = (calls \ {c}) \cup {[c EXCEPT !.phase = "done", !.error = TRUE]}
              /\ UNCHANGED <<store, nextId>>
           \/ /\ c.kind = "select"
              /\ \E s \in SelectResults(store) :
                    calls' = (calls \ {c}) \cup {[c EXCEPT !.phase = "done", !.data = s]}
              /\ UNCHANGED <<store, nextId>>
           \/ /\ c.kind = "delete"
              /\ store' = {r \in store : r.id # c.arg}
              /\ calls' = (calls \ {c}) \cup {[c EXCEPT !.phase = "done"]}
              /\ UNCHANGED nextId
           \/ /\ c.kind = "update"
              /\ store' = {IF r.id = c.arg.id THEN Row(r.id, c.arg.fields) ELSE r : r \in store}
              /\ calls' = (calls \ {c}) \cup {[c EXCEPT !.phase = "done"]}
              /\ UNCHANGED nextId
           \/ /\ c.kind = "add"
              /\ store' = store \cup {Row(nextId, c.arg.fields)}
              /\ nextId' = nextId + 1
              /\ calls' = (calls \ {c}) \cup {[c EXCEPT !.phase = "done"]}
        /\ UNCHANGED <<expenses, searchTerm, tzOffset, view, rendered, user,
                       loadingExpenses, expensesError, editingExpenseId, isSubmitting,
                       nextCall>>

\* fetchExpenses after its await: setExpensesError(error.message) or
\* setExpenses(data || []), then setLoadingExpenses(false); onSubmit, which
\* awaited the reload, goes on to reset() and is done
FetchReturns ==
    \E c \in calls :
        /\ c.kind = "select"
        /\ c.phase = "done"
        /\ IF c.error
           THEN expensesError' = "error" /\ UNCHANGED expenses
           ELSE expenses' = c.data /\ UNCHANGED expensesError
        /\ loadingExpenses' = FALSE
        /\ isSubmitting' = (IF c.origin = "onSubmit" THEN FALSE ELSE isSubmitting)
        /\ calls' = calls \ {c}
        /\ rendered' = "stale"
        /\ UNCHANGED <<searchTerm, tzOffset, view, user, editingExpenseId, store,
                       nextCall, nextId>>

\* the Delete button of a record on display: handleDeleteExpense up to its
\* await
ClickDelete ==
    /\ user # NULL
    /\ CanIssue(2)
    /\ \E i \in DOMAIN expenses :
          calls' = calls \cup {NewCall("delete", expenses[i].id, "handleDeleteExpense")}
    /\ nextCall' = nextCall + 1
    /\ UNCHANGED <<expenses, searchTerm, tzOffset, view, rendered, user,
                   loadingExpenses, expensesError, editingExpenseId, isSubmitting,
                   store, nextId>>

\* handleDeleteExpense after its await: an alert on error, otherwise
\* fetchExpenses(), which is not awaited
DeleteReturns ==
    \E c \in calls :
        /\ c.kind = "delete"
        /\ c.phase = "done"
        /\ IF c.error
           THEN /\ calls' = calls \ {c}
                /\ UNCHANGED <<loadingExpenses, expensesError, nextCall, rendered>>
           ELSE StartFetch("handleDeleteExpense", {c})
        /\ UNCHANGED <<expenses, searchTerm, tzOffset, view, user, editingExpenseId,
                       isSubmitting, store, nextId>>

\* the Edit button of a record on display: setEditingExpenseId(exp.id)
ClickEdit ==
    /\ user # NULL
    /\ \E i \in DOMAIN expenses :
          /\ editingExpenseId # expenses[i].id
          /\ editingExpenseId' = expenses[i].id
    /\ rendered' = "stale"
    /\ UNCHANGED <<expenses, searchTerm, tzOffset, view, user, loadingExpenses,
                   expensesError, isSubmitting, store, calls, nextCall, nextId>>

\* the Cancel Edit button: setEditingExpenseId(null)
CancelEdit ==
    /\ user # NULL
    /\ editingExpenseId # 0
    /\ editingExpenseId' = 0
    /\ rendered' = "stale"
    /\ UNCHANGED <<expenses, searchTerm, tzOffset, view, user, loadingExpenses,
                   expensesError, isSubmitting, store, calls, nextCall, nextId>>

\* the form is submitted: onSubmit up to its first await, an update of the
\* record being edited or the add_expense procedure; the submit button is
\* disabled while isSubmitting
Submit ==
    /\ user # NULL
    /\ ~isSubmitting
    /\ CanIssue(2)
    /\ \E f \in FormValues :
          calls' = calls \cup
              { IF editingExpenseId # 0
                THEN NewCall("update", [id |-> editingExpenseId, fields |-> f], "onSubmit")
                ELSE NewCall("add", [id |-> 0, fields |-> f], "onSubmit") }
    /\ nextCall' = nextCall + 1
    /\ isSubmitting' = TRUE
    /\ UNCHANGED <<expenses, searchTerm, tzOffset, view, rendered, user,
                   loadingExpenses, expensesError, editingExpenseId, store, nextId>>

\* onSubmit after its first await: an alert and return on error; otherwise
\* setEditingExpenseId(null) after an update, and the reload is awaited
SubmitReturns ==
    \E c \in calls :
        /\ c.kind \in {"update", "add"}
        /\ c.phase = "done"
        /\ IF c.error
           THEN /\ calls' = calls \ {c}
                /\ isSubmitting' = FALSE
                /\ UNCHANGED <<loadingExpenses, expensesError, nextCall, rendered,
                               editingExpenseId>>
           ELSE /\ editingExpenseId' = (IF c.kind = "update" THEN 0 ELSE editingExpenseId)
                /\ StartFetch("onSubmit", {c})
                /\ UNCHANGED isSubmitting
        /\ UNCHANGED <<expenses, searchTerm, tzOffset, view, user, store, nextId>>

\* the dashboard as it is constructed: no user yet, nothing loaded
InitReload ==
    /\ expenses = <<>>
    /\ searchTerm = <<>>
    /\ tzOffset = 0
    /\ view = EmptyView
    /\ rendered = "stale"
    /\ user = NULL
    /\ loadingExpenses = FALSE
    /\ expensesError = NULL
    /\ editingExpenseId = 0
    /\ isSubmitting = FALSE
    /\ store = InitialStore
    /\ calls = {}
    /\ nextCall = 0
    /\ nextId = 3

NextReload ==
    \/ CheckUser
    \/ StoreExecutes
    \/ FetchReturns
    \/ ClickDelete
    \/ DeleteReturns
    \/ ClickEdit
    \/ CancelEdit
    \/ Submit
    \/ SubmitReturns

SpecReload == InitReload /\ [][NextReload]_vars

-----------------------------------------------------------------------------
(* Vocabulary of the properties: the views of the last completed render.    *)

Ok == rendered = "ok"

\* filter(R, q) as the render computed it
Filtered == view.filteredExpenses

\* position of the record with this id in the filtered input, 0 when absent
PosInFiltered(id) ==
    IF \E i \in DOMAIN Filtered : Filtered[i].id = id
    THEN CHOOSE i \in DOMAIN Filtered : Filtered[i].id = id
    ELSE 0

CountId(items, id) == Cardinality({i \in DOMAIN items : items[i].id = id})

\* the items of all category groups, and of all (month, category) cells
CategoryViewItems == Flat([g \in DOMAIN view.sortedCategories |-> view.sortedCategories[g].items])
CategoryObjectItems ==
    Flat([g \in DOMAIN view.expensesByCategory |-> view.expensesByCategory[g].value.items])
MonthItems(month) == Flat([c \in DOMAIN month.categories |-> month.categories[c].value])
MonthViewItems == Flat([m \in DOMAIN view.sortedMonths |-> MonthItems(view.sortedMonths[m])])
MonthObjectItems ==
    Flat([m \in DOMAIN view.expensesByMonth |->
            Flat([c \in DOMAIN view.expensesByMonth[m].value |->
                    view.expensesByMonth[m].value[c].value])])

SameIdsAsFiltered(items) ==
    \A id \in 1..Len(expenses) : CountId(items, id) = CountId(Filtered, id)

\* year * 12 + month of a date string, read off its digits
DateYear(d) == DigitsValue(SubSeq(d, 1, 4))
DateMonth(d) == DigitsValue(SubSeq(d, 6, 7))
DateDay(d) == DigitsValue(SubSeq(d, 9, 10))
DateOrdinal(d) == (DateYear(d) * 100 + DateMonth(d)) * 100 + DateDay(d)

\* "March 2024" for a date in March 2024
CalendarLabel(d) == MonthNames[DateMonth(d)] \o <<" ">> \o SubSeq(d, 1, 4)

\* year * 12 + month that a month label names
LabelPosition(label) ==
    LET sp == CHOOSE i \in 1..Len(label) : label[i] = " "
    IN  DigitsValue(SubSeq(label, sp + 1, Len(label))) * 12
        + IndexIn(SubSeq(label, 1, sp - 1), MonthNames)

\* the label of the month of the month view that holds the record
MonthViewBucket(id) ==
    LET m == CHOOSE m \in DOMAIN view.sortedMonths :
                CountId(MonthItems(view.sortedMonths[m]), id) > 0
    IN  view.sortedMonths[m].label

RECURSIVE SumOfMonthTotals(_)
SumOfMonthTotals(months) ==
    IF months = <<>> THEN 0
    ELSE monthTotal(Head(months)) + SumOfMonthTotals(Tail(months))

RECURSIVE SumOfValues(_)
SumOfValues(values) ==
    IF values = <<>> THEN 0 ELSE Head(values) + SumOfValues(Tail(values))

\* first position in the filtered input of a record of the list
FirstSeen(items) ==
    LET ps == {PosInFiltered(items[i].id) : i \in DOMAIN items}
    IN  CHOOSE p \in ps : \A q \in ps : p <= q

-----------------------------------------------------------------------------
(* C1: every record of the filtered set is in exactly one category group    *)
(* and in exactly one (month, category) cell, and the views hold no other   *)
(* record.                                                                  *)

\* C1 as claimed: after a render of any RecordSet and search term, both views
\* exist and hold each record of filter(R, q) exactly once and nothing else.
C1_EveryRecordOnceInBothViews ==
    rendered # "stale" =>
        /\ Ok
        /\ SameIdsAsFiltered(CategoryViewItems)
        /\ SameIdsAsFiltered(CategoryObjectItems)
        /\ SameIdsAsFiltered(MonthViewItems)
        /\ SameIdsAsFiltered(MonthObjectItems)

\* what does hold: a render that completes partitions the filtered set
PartitionWhenRendered ==
    Ok =>
        /\ SameIdsAsFiltered(CategoryViewItems)
        /\ SameIdsAsFiltered(CategoryObjectItems)
        /\ SameIdsAsFiltered(MonthViewItems)
        /\ SameIdsAsFiltered(MonthObjectItems)

-----------------------------------------------------------------------------
(* C2: the month totals add up to the total of the filtered set.            *)

\* C2: in every completed render, monthTotal summed over the months of the
\* month view equals the sum of amount over filter(R, q).
C2_MonthTotalsSumToFilteredTotal ==
    Ok => SumOfMonthTotals(view.sortedMonths) = SumAmount(Filtered)

\* a filtered render with two months, a month of two cells among them, and a
\* total that is not zero
C2_Witness ==
    /\ Ok
    /\ searchTerm # <<>>
    /\ Len(Filtered) < Len(expenses)
    /\ Len(view.sortedMonths) >= 2
    /\ SumAmount(Filtered) # 0
    /\ \E m \in DOMAIN view.sortedMonths : monthTotal(view.sortedMonths[m]) # 0

-----------------------------------------------------------------------------
(* C3: month buckets follow the calendar month and year of the date.        *)

\* C3 as claimed: records whose dates have the same month and year share one
\* bucket, whatever the day, and the bucket is labelled with that month and
\* year, in the month view and in the chart series alike.
C3_BucketIsCalendarMonth ==
    Ok =>
        /\ \A i \in DOMAIN Filtered :
              MonthViewBucket(Filtered[i].id) = CalendarLabel(Filtered[i].date)
        /\ \A i, j \in DOMAIN Filtered :
              (DateYear(Filtered[i].date) = DateYear(Filtered[j].date)
               /\ DateMonth(Filtered[i].date) = DateMonth(Filtered[j].date))
              => MonthViewBucket(Filtered[i].id) = MonthViewBucket(Filtered[j].id)
        /\ \A i \in DOMAIN expenses :
              IndexIn(CalendarLabel(expenses[i].date), view.monthLabels) # 0
        /\ Len(view.monthLabels)
              = Cardinality({CalendarLabel(expenses[i].date) : i \in DOMAIN expenses})

-----------------------------------------------------------------------------
(* C4: the category cells of a month are listed in first-seen order.        *)

\* C4 as claimed: within each month, cell A is listed before cell B iff the
\* first record of A comes before the first record of B in the filtered
\* input, for every category text.
C4_CellsInFirstSeenOrder ==
    Ok =>
        \A m \in DOMAIN view.sortedMonths :
            LET cells == categoryCells(view.sortedMonths[m])
            IN  \A a, b \in DOMAIN cells :
                    a < b <=> FirstSeen(cells[a].items) < FirstSeen(cells[b].items)

-----------------------------------------------------------------------------
(* C5: the months are ordered newest first by year and month.               *)

\* C5: in every completed render, of two adjacent months of sortedMonths the
\* one listed first names the later (year, month); hence no month is listed
\* twice.
C5_MonthsNewestFirst ==
    Ok =>
        /\ \A m \in 1..(Len(view.sortedMonths) - 1) :
              LabelPosition(view.sortedMonths[m].label)
                > LabelPosition(view.sortedMonths[m + 1].label)
        /\ \A m, n \in DOMAIN view.sortedMonths :
              view.sortedMonths[m].label = view.sortedMonths[n].label => m = n

\* three months, met in the input in an order that is not newest first, with
\* an older year in between
C5_Witness ==
    /\ Ok
    /\ Len(view.sortedMonths) = 3
    /\ monthLabel(Filtered[1], tzOffset) = view.sortedMonths[3].label
    /\ monthLabel(Filtered[2], tzOffset) = view.sortedMonths[1].label

-----------------------------------------------------------------------------
(* C6: category grouping ignores case and shows the first-seen text.        *)

GroupOf(id) ==
    CHOOSE g \in DOMAIN view.sortedCategories :
        CountId(view.sortedCategories[g].items, id) > 0

\* C6: in every completed render, two records of the filtered set are in the
\* same category group iff their categories are equal after lower-casing; a
\* group shows the category text of its first record in input order, and so
\* does every (month, category) cell.
C6_CaseInsensitiveGroups ==
    Ok =>
        /\ \A i, j \in DOMAIN Filtered :
              (GroupOf(Filtered[i].id) = GroupOf(Filtered[j].id))
              <=> (toLowerCase(Filtered[i].category) = toLowerCase(Filtered[j].category))
        /\ \A g \in DOMAIN view.sortedCategories :
              view.sortedCategories[g].display
                = Filtered[FirstSeen(view.sortedCategories[g].items)].category
        /\ \A m \in DOMAIN view.sortedMonths :
              LET cells == categoryCells(view.sortedMonths[m])
              IN  /\ \A c \in DOMAIN cells :
                        cells[c].header = Filtered[FirstSeen(cells[c].items)].category
                  /\ \A c, d \in DOMAIN cells : \A x \in DOMAIN cells[c].items :
                        \A y \in DOMAIN cells[d].items :
                            (c = d) <=> (toLowerCase(cells[c].items[x].category)
                                           = toLowerCase(cells[d].items[y].category))

\* "food" is met before "Food": one group, shown as "food"
C6_Witness ==
    /\ Ok
    /\ Len(Filtered) >= 3
    /\ \E g \in DOMAIN view.sortedCategories :
          /\ view.sortedCategories[g].display = food
          /\ \E x \in DOMAIN view.sortedCategories[g].items :
                view.sortedCategories[g].items[x].category = Food
    /\ Len(view.sortedCategories) >= 2

-----------------------------------------------------------------------------
(* C7: the items of a category group are sorted by date, newest first, and  *)
(* stably; nothing else is reordered.                                       *)

\* C7: in every completed render, of two items of a category group the one
\* listed first has the later date, or the same date and the earlier place in
\* the input; the filtered input keeps the order of the RecordSet, and the
\* items of every (month, category) cell keep the order of the input.
C7_GroupItemsNewestFirstStable ==
    Ok =>
        /\ \A g \in DOMAIN view.sortedCategories :
              LET items == view.sortedCategories[g].items
              IN  \A a, b \in DOMAIN items :
                      a < b =>
                        \/ DateOrdinal(items[a].date) > DateOrdinal(items[b].date)
                        \/ /\ DateOrdinal(items[a].date) = DateOrdinal(items[b].date)
                           /\ PosInFiltered(items[a].id) < PosInFiltered(items[b].id)
        /\ \A i \in DOMAIN Filtered : Filtered[i] = expenses[Filtered[i].id]
        /\ \A i, j \in DOMAIN Filtered : i < j => Filtered[i].id < Filtered[j].id
        /\ \A m \in DOMAIN view.sortedMonths :
              LET cells == categoryCells(view.sortedMonths[m])
              IN  \A c \in DOMAIN cells : \A a, b \in DOMAIN cells[c].items :
                      a < b => PosInFiltered(cells[c].items[a].id)
                                 < PosInFiltered(cells[c].items[b].id)

\* a group of three: the oldest record first in the input, then two of one
\* date
C7_Witness ==
    /\ Ok
    /\ \E g \in DOMAIN view.sortedCategories :
          LET items == view.sortedCategories[g].items
          IN  /\ Len(items) = 3
              /\ items[3].id = 1
              /\ items[1].date = items[2].date
              /\ items[1].id = 2

-----------------------------------------------------------------------------
(* C10: the chart series and the grand total do not depend on the search.   *)

\* first position in the RecordSet of a record of the month bucket
FirstInBucket(label) ==
    LET ps == {i \in DOMAIN expenses : monthLabel(expenses[i], tzOffset) = label}
    IN  CHOOSE p \in ps : \A q \in ps : p <= q

\* sum of amount over the records of the RecordSet in the month bucket
BucketTotal(label) ==
    SumAmount(SelectSeq(expenses, LAMBDA exp : monthLabel(exp, tzOffset) = label))

\* C10: in every completed render, whatever the search term, the series has
\* one label per month bucket of the whole RecordSet, in first-encounter
\* order, values[i] is the sum of amount over the records of the RecordSet in
\* bucket labels[i], the values add up to totalSpent, and totalSpent is the sum
\* of amount over the RecordSet; an empty RecordSet gives an empty series.
C10_SeriesOfUnfilteredRecordSet ==
    Ok =>
        /\ Len(view.monthLabels) = Len(view.monthValues)
        /\ \A i \in DOMAIN expenses :
              IndexIn(monthLabel(expenses[i], tzOffset), view.monthLabels) # 0
        /\ \A k \in DOMAIN view.monthLabels :
              /\ \E i \in DOMAIN expenses :
                    monthLabel(expenses[i], tzOffset) = view.monthLabels[k]
              /\ view.monthValues[k] = BucketTotal(view.monthLabels[k])
        /\ \A k, l \in DOMAIN view.monthLabels :
              k < l => FirstInBucket(view.monthLabels[k]) < FirstInBucket(view.monthLabels[l])
        /\ SumOfValues(view.monthValues) = view.totalSpent
        /\ view.totalSpent = SumAmount(expenses)
        /\ (expenses = <<>> => view.monthLabels = <<>> /\ view.monthValues = <<>>)

\* a search that hides a record whose month is still on the chart
C10_Witness ==
    /\ Ok
    /\ searchTerm # <<>>
    /\ Len(view.monthLabels) >= 2
    /\ Len(view.sortedMonths) < Len(view.monthLabels)
    /\ SumAmount(Filtered) # view.totalSpent

-----------------------------------------------------------------------------
(* C8: the search filter.                                                   *)

\* the text of the notes, empty when there are none
NotesText(exp) == IF exp.notes.isNull THEN <<>> ELSE exp.notes.str

\* lowercase(q) occurs in lowercase(field)
OccursIn(q, field) ==
    \E k \in 0..(Len(field) - Len(q)) :
        SubSeq(toLowerCase(field), k + 1, k + Len(q)) = toLowerCase(q)

Kept(exp, q) ==
    \/ q = <<>>
    \/ OccursIn(q, exp.title)
    \/ OccursIn(q, exp.category)
    \/ OccursIn(q, NotesText(exp))

\* C8: in every completed render, the filtered set is the RecordSet itself
\* when the search term is empty, and otherwise holds, once each and in input
\* order, exactly the records in which the lower-cased term (not trimmed)
\* occurs in the lower-cased title, category or notes; filtering the result
\* again with the same term changes nothing.
C8_FilterIsMatchingSubsequence ==
    Ok =>
        /\ \A i \in DOMAIN expenses :
              CountId(Filtered, i) = (IF Kept(expenses[i], searchTerm) THEN 1 ELSE 0)
        /\ \A i \in DOMAIN Filtered : Filtered[i] = expenses[Filtered[i].id]
        /\ \A i, j \in DOMAIN Filtered : i < j => Filtered[i].id < Filtered[j].id
        /\ (searchTerm = <<>> => Filtered = expenses)
        /\ filteredExpenses(Filtered, searchTerm) = Filtered

\* a search for a single space keeps a record for its notes alone and drops
\* another
C8_Witness ==
    /\ Ok
    /\ searchTerm = <<" ">>
    /\ Len(Filtered) < Len(expenses)
    /\ \E i \in DOMAIN Filtered :
          /\ ~OccursIn(searchTerm, Filtered[i].title)
          /\ ~OccursIn(searchTerm, Filtered[i].category)

-----------------------------------------------------------------------------
(* C9: the dashboard shows the latest snapshot of the store.                *)

\* no request is in flight and the last reload reported no error
Idle == user # NULL /\ calls = {} /\ expensesError = NULL

\* C9 as claimed: whenever no request is in flight (and no reload failed), the
\* dashboard's RecordSet holds exactly the rows of the store, also when
\* reloads overlapped and were answered in any order.
C9_IdleDashboardShowsStore ==
    Idle =>
        /\ {expenses[i] : i \in DOMAIN expenses} = store
        /\ Len(expenses) = Cardinality(store)

====
